---- MODULE Spec2Model ----
(***************************************************************************)
(* Model of Spread_Monitor.py: the interest-rate spread dashboard.         *)
(*                                                                         *)
(* Numbers.  The store quotes a rate with two decimals: the observation    *)
(* value "4.34" is the integer n = 434 (n = Scale * the decimal), and the  *)
(* cell that pd.to_numeric makes of it is the float64 nearest n / Scale.   *)
(* A float64 the program computes is a record [n, t]: the binary number    *)
(* (n + t * 2^-TinyBits) / Scale, n the decimal it is next to and t its    *)
(* binary rounding error.  Subtraction, multiplication, addition and       *)
(* division round to the nearest float64, ties to the even mantissa, as    *)
(* IEEE 754 does.  A threshold may also be -inf or +inf and a value may be *)
(* NaN: an extended number is a triple <<class, n, t>>.                    *)
(*                                                                         *)
(* Optional values.  Python's None and pandas' missing cell are the empty  *)
(* sequence <<>>; a present value x is <<x>>.                              *)
(*                                                                         *)
(* Three specifications share the variables:                               *)
(*   ClassifySpec  get_signal_status on drawn (value, rule set) inputs     *)
(*   AlignSpec     calculate_spread on two drawn Series Store responses    *)
(*   Spec          one render pass of the script (api_key present)         *)
(***************************************************************************)
EXTENDS Integers, Sequences, FiniteSets, TLC

VARIABLES
    cl_value,      \* ClassifySpec: the value handed to get_signal_status
    cl_signals,    \* ClassifySpec: the rule set handed to get_signal_status
    cl_result,     \* ClassifySpec: None, or Some(the message returned)
    resp1,         \* AlignSpec: the store's response to the first fetch
    resp2,         \* AlignSpec: the store's response to the second fetch
    spread_key,    \* AlignSpec: index in SPREADS of the definition computed
    calc,          \* AlignSpec: None, or Some(what calculate_spread returned)
    outer_sorted,  \* the installed pandas: whether an outer join always sorts
    pc,            \* Spec: position of the script
    idx,           \* Spec: index of the current loop iteration (1-based)
    summary,       \* Spec: what each summary column shows
    policy,        \* Spec: what the policy-rate framework section shows
    detail,        \* Spec: what each detail tab shows
    faults         \* Spec: number of abnormal store responses so far

vars == <<cl_value, cl_signals, cl_result, resp1, resp2, spread_key, calc,
          outer_sorted, pc, idx, summary, policy, detail, faults>>

classifyVars == <<cl_value, cl_signals, cl_result>>
alignVars == <<resp1, resp2, spread_key, calc, outer_sorted>>
passVars == <<pc, idx, summary, policy, detail, faults>>

(***************************************************************************)
(* Bounds of the model.                                                    *)
(***************************************************************************)
\* Longest generic rule set drawn for get_signal_status.
MaxRules == 2
\* The configured rule sets are tried on every half basis point of
\* [-MaxAbsBp, MaxAbsBp].
MaxAbsBp == 101
\* Dates of drawn observations are 1..MaxDate.
MaxDate == 2
\* Longest drawn observation list of one store response.
MaxLen == 2
\* Most observations the two drawn responses of one calculate_spread hold
\* together.
MaxRows == 4
\* Largest multiplier k (and smallest, -k) the linearity law is tried with.
MaxMult == 3
\* Abnormal store responses in one render pass.
MaxFaults == 2

\* Two decimals: the decimal x is the integer Scale * x.
Scale == 100
\* A rounding error is counted in units of 2^-TinyBits / Scale.
TinyBits == 60
\* Bits of the mantissa of a float64.
MantissaBits == 53
\* One percentage point is 100 basis points (the unit of the spread axis).
BpPerPercent == 100

(***************************************************************************)
(* Optional values and extended numbers.                                   *)
(***************************************************************************)
None == <<>>
Some(x) == <<x>>

NegInf == <<-1, 0, 0>>
PosInf == <<1, 0, 0>>
NaN == <<2, 0, 0>>
\* The float64 that is exactly n / Scale.
Fin(n) == <<0, n, 0>>
\* A whole number of the source (a threshold in bp) as an extended number.
Num(n) == Fin(n * Scale)

\* Order of two finite numbers: the rounding error is far below one unit
\* of n, so it decides only between equal n.
FiniteLess(x, y) == x[2] < y[2] \/ (x[2] = y[2] /\ x[3] < y[3])

\* Python's x <= y on floats: false when either is NaN.
Leq(x, y) ==
    /\ x[1] # 2
    /\ y[1] # 2
    /\ \/ x[1] < y[1]
       \/ x[1] = y[1] /\ (x[1] # 0 \/ ~FiniteLess(y, x))

\* Python's x < y on floats: false when either is NaN.
Lt(x, y) ==
    /\ x[1] # 2
    /\ y[1] # 2
    /\ \/ x[1] < y[1]
       \/ x[1] = 0 /\ y[1] = 0 /\ FiniteLess(x, y)

(***************************************************************************)
(* float64 arithmetic.  nearest_double(n, d, t) rounds the real number     *)
(* (n + t * 2^-TinyBits) / d to the nearest float64, ties to the even      *)
(* mantissa, and returns the t of the result (same n, same d).  With       *)
(* 2^e <= |x| < 2^(e+1) the float64s near x are the multiples of           *)
(* 2^(e - MantissaBits + 1); one of these steps is Weight units of t, and  *)
(* the remainder of x modulo the step is found by modular arithmetic.  A   *)
(* number below 2^-8 in size has a step finer than one unit of t and is    *)
(* kept as it is (the displays show it as zero).                           *)
(***************************************************************************)
Double(n, t) == [n |-> n, t |-> t]

\* The float64 as an extended number.
Ext(x) == <<0, x.n, x.t>>

Pow2(k) == 2 ^ k
Pow10(k) == 10 ^ k

\* 2^k modulo m, by steps of 2^30.
RECURSIVE Pow2Mod(_, _)
Pow2Mod(k, m) ==
    IF k <= 30 THEN (2 ^ k) % m
    ELSE (((2 ^ 30) % m) * Pow2Mod(k - 30, m)) % m

\* The e with 2^e <= n / d < 2^(e+1), for n > 0.
RECURSIVE Exponent(_, _)
Exponent(n, d) ==
    IF n >= 2 * d THEN 1 + Exponent(n, 2 * d)
    ELSE IF n < d THEN Exponent(2 * n, d) - 1
    ELSE 0

\* The binade of (n + t * 2^-TinyBits) / d, e0 being that of n / d: one
\* lower when n / d is a power of two and t is negative.
binade(n, d, t, e0) ==
    IF t < 0 /\ (IF e0 >= 0 THEN n = d * Pow2(e0) ELSE n * Pow2(-e0) = d)
    THEN e0 - 1
    ELSE e0

\* The remainder r (0 <= r < 2 * Weight) of the number modulo two steps,
\* the step being 2^-u and Weight = d * 2^sh units of t.
step_remainder(n, d, t, u, sh) ==
    (((Pow2Mod(u, 2 * d) * (n % (2 * d))) % (2 * d)) * Pow2(sh) + t)
        % (2 * d * Pow2(sh))

\* What rounding to the nearest step takes off: r0 is the remainder modulo
\* one step, odd tells whether the step below is an odd mantissa.
round_off(r0, odd, Weight) ==
    IF 2 * r0 < Weight THEN r0
    ELSE IF 2 * r0 > Weight THEN r0 - Weight
    ELSE IF odd THEN r0 - Weight ELSE r0

nearest_step(r, Weight) == round_off(r % Weight, r >= Weight, Weight)

round_to_step(n, d, t, u, sh) ==
    IF sh < 0 THEN t
    ELSE t - nearest_step(step_remainder(n, d, t, u, sh), d * Pow2(sh))

round_in_binade(n, d, t, e) ==
    round_to_step(n, d, t, MantissaBits - 1 - e,
                  TinyBits - (MantissaBits - 1 - e))

nearest_double_pos(n, d, t) ==
    round_in_binade(n, d, t, binade(n, d, t, Exponent(n, d)))

nearest_double(n, d, t) ==
    IF n > 0 THEN nearest_double_pos(n, d, t)
    ELSE IF n < 0 THEN -nearest_double_pos(-n, d, -t)
    ELSE t

\* pd.to_numeric of the two-decimal text n: the float64 nearest n / Scale.
to_numeric(n) == Double(n, nearest_double(n, Scale, 0))

\* x - y, x + y and x * m (m a whole number) on float64.
float_sub(x, y) ==
    Double(x.n - y.n, nearest_double(x.n - y.n, Scale, x.t - y.t))
float_add(x, y) ==
    Double(x.n + y.n, nearest_double(x.n + y.n, Scale, x.t + y.t))
float_mul(x, m) == Double(x.n * m, nearest_double(x.n * m, Scale, x.t * m))

\* x <= y on two float64.
float_leq(x, y) == Leq(Ext(x), Ext(y))

(***************************************************************************)
(* SPREADS: the table of spread definitions, in declared order.  A signals *)
(* dict is the sequence of its items in insertion order; a message is the  *)
(* sequence of its parts separated by " - ".                               *)
(***************************************************************************)
Rule(name, lo, hi, msg) ==
    [signal_name |-> name, min_val |-> lo, max_val |-> hi, message |-> msg]

SPREADS ==
    << [key |-> "EFFR-IORB", name |-> "EFFR - IORB",
        series |-> <<"EFFR", "IORB">>, multiplier |-> 1000,
        threshold_min |-> -10, threshold_max |-> 10,
        signals |-> <<
            Rule("tight", Num(10), PosInf,
                 <<"short-term liquidity tight", "reserve shortage">>),
            Rule("normal", Num(-10), Num(10), <<"normal range">>),
            Rule("loose", NegInf, Num(-10), <<"excess reserves">>) >>],
       [key |-> "SOFR-RRP", name |-> "SOFR - RRP",
        series |-> <<"SOFR", "RRPONTSYAWARD">>, multiplier |-> 1000,
        threshold_min |-> 0, threshold_max |-> 10,
        signals |-> <<
            Rule("stress", Num(10), PosInf,
                 <<"repo market stress", "collateral shortage">>),
            Rule("normal", Num(0), Num(10), <<"ordinary variation">>),
            Rule("abnormal", NegInf, Num(0),
                 <<"abnormal", "check data or policy">>) >>],
       [key |-> "DGS3MO-EFFR", name |-> "3M Treasury - EFFR",
        series |-> <<"DGS3MO", "EFFR">>, multiplier |-> 100,
        threshold_min |-> -20, threshold_max |-> 20,
        signals |-> <<
            Rule("easing", NegInf, Num(-20), <<"rate cut expected">>),
            Rule("neutral", Num(-20), Num(20), <<"neutral">>),
            Rule("tightening", Num(20), PosInf, <<"rate hike expected">>) >>],
       [key |-> "DGS10-DGS2", name |-> "10Y - 2Y Yield Curve",
        series |-> <<"DGS10", "DGS2">>, multiplier |-> 100,
        threshold_min |-> 0, threshold_max |-> 50,
        signals |-> <<
            Rule("severe_inversion", NegInf, Num(-50),
                 <<"strong recession risk">>),
            Rule("mild_inversion", Num(-50), Num(0),
                 <<"curve inverted", "recession warning">>),
            Rule("normal", Num(0), Num(50), <<"normal">>),
            Rule("steep", Num(50), PosInf, <<"steep curve">>) >>],
       [key |-> "DGS10-DGS3MO", name |-> "10Y - 3M Yield Curve",
        series |-> <<"DGS10", "DGS3MO">>, multiplier |-> 100,
        threshold_min |-> 0, threshold_max |-> 100,
        signals |-> <<
            Rule("strong_recession", NegInf, Num(-50),
                 <<"very strong recession signal">>),
            Rule("recession_warning", Num(-50), Num(0),
                 <<"recession concern level">>),
            Rule("normal", Num(0), Num(100), <<"normal-moderate">>),
            Rule("steep", Num(100), PosInf, <<"term premium">>) >>] >>

(***************************************************************************)
(* get_signal_status: the first rule, in declared order, whose bounds      *)
(* satisfy min_val <= value < max_val; the default message otherwise.      *)
(***************************************************************************)
DefaultMessage == <<"check data">>

RECURSIVE signal_scan_closed(_, _, _)
signal_scan_closed(value, signals, i) ==
    IF i > Len(signals) THEN DefaultMessage
    ELSE IF Leq(signals[i].min_val, value) /\ Leq(value, signals[i].max_val)
         THEN signals[i].message
         ELSE signal_scan_closed(value, signals, i + 1)

\* The classifier with the upper bound taken inclusive.
get_signal_status_closed(value, signals) ==
    signal_scan_closed(value, signals, 1)

\* The classifier with the lower bound taken exclusive.
RECURSIVE signal_scan_open(_, _, _)
signal_scan_open(value, signals, i) ==
    IF i > Len(signals) THEN DefaultMessage
    ELSE IF Lt(signals[i].min_val, value) /\ Lt(value, signals[i].max_val)
         THEN signals[i].message
         ELSE signal_scan_open(value, signals, i + 1)

get_signal_status_open(value, signals) == signal_scan_open(value, signals, 1)

RECURSIVE signal_scan(_, _, _)
signal_scan(value, signals, i) ==
    IF i > Len(signals) THEN DefaultMessage
    ELSE IF Leq(signals[i].min_val, value) /\ Lt(value, signals[i].max_val)
         THEN signals[i].message
         ELSE signal_scan(value, signals, i + 1)

get_signal_status(value, signals) == signal_scan(value, signals, 1)

(***************************************************************************)
(* The Series Store.  A response is an exception (network or HTTP error),  *)
(* a JSON body without 'observations', or a list of observations.  The     *)
(* program neither asks for an order nor sorts what it receives, so a list *)
(* may come in any order of dates and may repeat a date.  An observation's *)
(* value is text: Some(n) when it reads as the number n / Scale, None when *)
(* it does not (the service's "." for a day without a quote).              *)
(***************************************************************************)
Observation(d, v) == [date |-> d, value |-> v]

ErrorResponse == [kind |-> "error", observations |-> <<>>]
NoKeyResponse == [kind |-> "nokey", observations |-> <<>>]
OkResponse(obs) == [kind |-> "ok", observations |-> obs]

\* Rates in percent, as fixed-point numbers: 5.33 and 5.40.
Rates == {533, 540}
RawValues == {None} \cup {Some(r) : r \in Rates}
RawObservations == {Observation(d, v) : d \in 1..MaxDate, v \in RawValues}

\* A non-numeric value is dropped before anything reads it, so a list gives
\* the frame of its numeric observations.  The drawn lists are the numeric
\* ones and the ones without any numeric value: the latter give the empty
\* frame, which no numeric list gives (the empty list raises).  Lists that
\* mix both are among the store data of the render pass.
IsUniform(obs) ==
    \/ \A i \in 1..Len(obs) : obs[i].value # None
    \/ \A i \in 1..Len(obs) : obs[i].value = None

ObservationLists ==
    {obs \in UNION {[1..n -> RawObservations] : n \in 0..MaxLen} :
        IsUniform(obs)}

Responses ==
    {ErrorResponse, NoKeyResponse} \cup {OkResponse(obs) : obs \in ObservationLists}

(***************************************************************************)
(* fetch_fred_data: None when the request raises or the body holds no      *)
(* 'observations'; otherwise the data frame of the observations whose      *)
(* value is numeric, indexed by date, in the order received.  An empty     *)
(* observation list has no 'date' column: the KeyError is caught like any  *)
(* other exception.  A data frame is the sequence of its rows.             *)
(***************************************************************************)
RECURSIVE dropna_values(_)
dropna_values(obs) ==
    IF obs = <<>> THEN <<>>
    ELSE LET rest == dropna_values(Tail(obs))
         IN IF Head(obs).value = None THEN rest
            ELSE <<[date |-> Head(obs).date, value |-> Head(obs).value[1]]>>
                 \o rest

fetch_raises(resp) ==
    \/ resp.kind = "error"
    \/ resp.kind = "ok" /\ resp.observations = <<>>

fetch_fred_data(resp) ==
    IF fetch_raises(resp) \/ resp.kind # "ok" THEN None
    ELSE Some(dropna_values(resp.observations))

(***************************************************************************)
(* df1.join(df2, how='outer').  The script does not sort and names no      *)
(* pandas version; what the join does with the order of the rows depends   *)
(* on the pandas installed (outer_sorted):                                 *)
(*   - the sorted join: one block of rows per date of either index, dates  *)
(*     ascending; within a date every pairing of a left row with a right   *)
(*     row, left rows outermost in the order received, and a missing cell  *)
(*     where one side has no row;                                          *)
(*   - pandas before 2.2 joins two equal indexes without repeated date,    *)
(*     and any index with an empty one, row by row in the order received   *)
(*     (the union of equal indexes is the index itself), and sorts in      *)
(*     every other case; pandas 2.2 and later always sorts.                *)
(***************************************************************************)
RECURSIVE SortedSeq(_)
SortedSeq(S) ==
    IF S = {} THEN <<>>
    ELSE LET m == CHOOSE x \in S : \A y \in S : x <= y
         IN <<m>> \o SortedSeq(S \ {m})

MinOf(S) == CHOOSE x \in S : \A y \in S : x <= y
MaxOf(S) == CHOOSE x \in S : \A y \in S : y <= x
RowIndexesAt(rows, d) == {i \in 1..Len(rows) : rows[i].date = d}

RowsAt(rows, d) == SelectSeq(rows, LAMBDA r : r.date = d)

JoinRow(d, c1, c2) == [date |-> d, s1 |-> c1, s2 |-> c2]

JoinBlock(rows1, rows2, d) ==
    LET L == RowsAt(rows1, d)
        R == RowsAt(rows2, d)
    IN IF L = <<>>
       THEN [j \in 1..Len(R) |-> JoinRow(d, None, Some(R[j].value))]
       ELSE IF R = <<>>
       THEN [i \in 1..Len(L) |-> JoinRow(d, Some(L[i].value), None)]
       ELSE [k \in 1..(Len(L) * Len(R)) |->
                JoinRow(d, Some(L[((k - 1) \div Len(R)) + 1].value),
                           Some(R[((k - 1) % Len(R)) + 1].value))]

RECURSIVE JoinBlocks(_, _, _)
JoinBlocks(rows1, rows2, dates) ==
    IF dates = <<>> THEN <<>>
    ELSE JoinBlock(rows1, rows2, Head(dates))
         \o JoinBlocks(rows1, rows2, Tail(dates))

DatesOf(rows) == {rows[i].date : i \in 1..Len(rows)}

\* The index of a data frame, and whether a date is on it more than once.
IndexOf(rows) == [i \in 1..Len(rows) |-> rows[i].date]
HasRepeatedDate(rows) ==
    \E d \in DatesOf(rows) : Cardinality(RowIndexesAt(rows, d)) > 1

join_inner(rows1, rows2) ==
    JoinBlocks(rows1, rows2, SortedSeq(DatesOf(rows1) \cap DatesOf(rows2)))

\* Whether pandas before 2.2 keeps the order received.
keeps_received_order(rows1, rows2) ==
    \/ rows1 = <<>>
    \/ rows2 = <<>>
    \/ IndexOf(rows1) = IndexOf(rows2) /\ ~HasRepeatedDate(rows1)

\* The join row by row of equal indexes, or of an index with an empty one.
join_in_place(rows1, rows2) ==
    IF rows2 = <<>>
    THEN [i \in 1..Len(rows1) |->
             JoinRow(rows1[i].date, Some(rows1[i].value), None)]
    ELSE IF rows1 = <<>>
    THEN [i \in 1..Len(rows2) |->
             JoinRow(rows2[i].date, None, Some(rows2[i].value))]
    ELSE [i \in 1..Len(rows1) |->
             JoinRow(rows1[i].date, Some(rows1[i].value),
                     Some(rows2[i].value))]

join_sorted(rows1, rows2) ==
    JoinBlocks(rows1, rows2, SortedSeq(DatesOf(rows1) \cup DatesOf(rows2)))

join_outer(rows1, rows2) ==
    IF ~outer_sorted /\ keeps_received_order(rows1, rows2)
    THEN join_in_place(rows1, rows2)
    ELSE join_sorted(rows1, rows2)

(***************************************************************************)
(* fillna(method='ffill'): down the rows, a missing cell takes the value   *)
(* of the nearest row above in its own column, when there is one.          *)
(***************************************************************************)
RECURSIVE ffill_from(_, _, _)
ffill_from(rows, last1, last2) ==
    IF rows = <<>> THEN <<>>
    ELSE LET r == Head(rows)
             c1 == IF r.s1 = None THEN last1 ELSE r.s1
             c2 == IF r.s2 = None THEN last2 ELSE r.s2
         IN <<JoinRow(r.date, c1, c2)>> \o ffill_from(Tail(rows), c1, c2)

\* Gaps filled with zero in place of the last known value.
fillna_zero(rows) ==
    [i \in 1..Len(rows) |->
        JoinRow(rows[i].date,
                IF rows[i].s1 = None THEN Some(0) ELSE rows[i].s1,
                IF rows[i].s2 = None THEN Some(0) ELSE rows[i].s2)]

ffill(rows) == ffill_from(rows, None, None)

\* dropna(): the rows without a missing cell.
dropna(rows) == SelectSeq(rows, LAMBDA r : r.s1 # None /\ r.s2 # None)

\* Lines 246-248: the aligned pair of two data frames.
align(rows1, rows2) == dropna(ffill(join_outer(rows1, rows2)))

(***************************************************************************)
(* calculate_spread: (None, None, None) when a fetch returned None;        *)
(* otherwise the aligned frame with its spread column, the spread of its   *)
(* last row (None when it has no row) and the two component columns.  A    *)
(* missing cell makes the spread cell missing.  The two rate cells a and b *)
(* are two-decimal numbers; the spread is the float64 the code computes    *)
(* from their float64 values.                                              *)
(***************************************************************************)
\* The difference scaled without its parentheses.
spread_unparenthesised(a, b, multiplier) ==
    float_sub(to_numeric(a), float_mul(to_numeric(b), multiplier))

spread_value(a, b, multiplier) ==
    float_mul(float_sub(to_numeric(a), to_numeric(b)), multiplier)

spread_cell(r, multiplier) ==
    IF r.s1 = None \/ r.s2 = None THEN None
    ELSE Some(spread_value(r.s1[1], r.s2[1], multiplier))

with_spread(rows, multiplier) ==
    [i \in 1..Len(rows) |->
        [date |-> rows[i].date, s1 |-> rows[i].s1, s2 |-> rows[i].s2,
         spread |-> spread_cell(rows[i], multiplier)]]

calculate_spread(spread_info, r1, r2) ==
    LET df1 == fetch_fred_data(r1)
        df2 == fetch_fred_data(r2)
    IN IF df1 = None \/ df2 = None
       THEN [df |-> None, latest_value |-> None, components |-> None]
       ELSE LET df == with_spread(align(df1[1], df2[1]),
                                  spread_info.multiplier)
            IN [df |-> Some(df),
                latest_value |->
                    IF Len(df) > 0 THEN df[Len(df)].spread ELSE None,
                components |->
                    Some([i \in 1..Len(df) |->
                            JoinRow(df[i].date, df[i].s1, df[i].s2)])]

(***************************************************************************)
(* ClassifySpec: get_signal_status applied to a drawn value and rule set.  *)
(* Generic rule sets take their bounds from GenericBounds, inverted and    *)
(* overlapping intervals included; the configured rule sets of SPREADS are *)
(* tried on a grid of half basis points.                                   *)
(***************************************************************************)
GenericBounds == {NegInf, Num(-10), Num(0), Num(10), PosInf}
GenericNames == <<"r1", "r2", "r3", "r4">>
GenericRules(i) ==
    {Rule(GenericNames[i], lo, hi, <<GenericNames[i]>>) :
        lo \in GenericBounds, hi \in GenericBounds}
RECURSIVE GenericSignalsOfLen(_)
GenericSignalsOfLen(n) ==
    IF n = 0 THEN {<<>>}
    ELSE {Append(rs, r) : rs \in GenericSignalsOfLen(n - 1), r \in GenericRules(n)}
GenericSignals == UNION {GenericSignalsOfLen(n) : n \in 0..MaxRules}
\* Values on, next to and away from the bounds: <<0, n, t>> with t = -1
\* or 1 is a float64 just below or just above n / Scale.
GenericValues ==
    {NegInf, PosInf, NaN}
    \cup {<<0, n, t>> : n \in {-1000, -1, 0, 1, 999, 1000}, t \in {-1, 0, 1}}

ConfiguredSignals == {SPREADS[i].signals : i \in 1..Len(SPREADS)}
GridValues ==
    {<<0, k * (Scale \div 2), t>> :
        k \in (-2 * MaxAbsBp)..(2 * MaxAbsBp), t \in {-1, 0, 1}}

PassIdle ==
    /\ pc = "idle"
    /\ idx = 0
    /\ summary = <<>>
    /\ policy = None
    /\ detail = <<>>
    /\ faults = 0

AlignIdle ==
    /\ resp1 = ErrorResponse
    /\ resp2 = ErrorResponse
    /\ spread_key = 0
    /\ calc = None
    /\ outer_sorted \in BOOLEAN

ClassifyIdle ==
    /\ cl_value = NaN
    /\ cl_signals = <<>>
    /\ cl_result = None

ClassifyInit ==
    /\ \/ cl_signals \in GenericSignals /\ cl_value \in GenericValues
       \/ cl_signals \in ConfiguredSignals /\ cl_value \in GridValues
    /\ cl_result = None
    /\ AlignIdle
    /\ PassIdle

GetSignalStatus ==
    /\ cl_result = None
    /\ cl_result' = Some(get_signal_status(cl_value, cl_signals))
    /\ UNCHANGED <<cl_value, cl_signals, alignVars, passVars>>

ClassifyNext == GetSignalStatus

ClassifySpec == ClassifyInit /\ [][ClassifyNext]_vars

(***************************************************************************)
(* AlignSpec: calculate_spread applied to a definition of SPREADS and two  *)
(* drawn store responses.                                                  *)
(***************************************************************************)
AlignInit ==
    /\ resp1 \in Responses
    /\ resp2 \in Responses
    /\ Len(resp1.observations) + Len(resp2.observations) <= MaxRows
    /\ spread_key = 0
    /\ calc = None
    /\ outer_sorted \in BOOLEAN
    /\ ClassifyIdle
    /\ PassIdle

CalculateSpread ==
    /\ calc = None
    /\ \E k \in 1..Len(SPREADS) :
        /\ spread_key' = k
        /\ calc' = Some(calculate_spread(SPREADS[k], resp1, resp2))
    /\ UNCHANGED <<resp1, resp2, outer_sorted, classifyVars, passVars>>

AlignNext == CalculateSpread

AlignSpec == AlignInit /\ [][AlignNext]_vars

(***************************************************************************)
(* The render pass (lines 379-602, api_key present).  The store holds one  *)
(* list of observations per series; each fetch of the pass gets either     *)
(* that list or, at most MaxFaults times in a pass, an abnormal response:  *)
(* an exception, a body without 'observations', an empty list, or the list *)
(* with every value non-numeric.                                           *)
(***************************************************************************)
StoreData(sid) ==
    CASE sid = "EFFR" ->
            <<Observation(1, Some(433)), Observation(2, Some(433)),
              Observation(3, Some(433))>>
      [] sid = "IORB" -> <<Observation(1, Some(440))>>
      [] sid = "SOFR" ->
            <<Observation(1, Some(430)), Observation(2, Some(431))>>
      [] sid = "RRPONTSYAWARD" -> <<Observation(1, Some(425))>>
      [] sid = "DGS3MO" ->
            <<Observation(1, None), Observation(2, Some(420))>>
      [] sid = "DGS10" ->
            <<Observation(1, Some(450)), Observation(2, Some(455))>>
      [] sid = "DGS2" ->
            <<Observation(1, Some(460)), Observation(2, None)>>
      [] sid = "DFEDTARL" -> <<Observation(1, Some(425))>>
      [] sid = "DFEDTARU" -> <<Observation(1, Some(450))>>

FaultKinds == {"error", "nokey", "nolist", "missing"}
ResponseKinds == {"ok"} \cup FaultKinds

StoreResponse(sid, kind) ==
    CASE kind = "ok" -> OkResponse(StoreData(sid))
      [] kind = "error" -> ErrorResponse
      [] kind = "nokey" -> NoKeyResponse
      [] kind = "nolist" -> OkResponse(<<>>)
      [] kind = "missing" ->
            OkResponse([i \in 1..Len(StoreData(sid)) |->
                          Observation(StoreData(sid)[i].date, None)])

FaultCount(kinds) == Cardinality({i \in DOMAIN kinds : kinds[i] # "ok"})

(***************************************************************************)
(* Number formatting: f"{x:.Nf}" of a float64, as the number of units of   *)
(* 10^-N shown (decimals = N, units signed) and whether a minus sign is    *)
(* printed (a negative number that rounds to zero prints "-0.0").  Python  *)
(* rounds the binary value: the rounding error t decides a decimal tie,    *)
(* and a tie of an exact value goes to the even digit.                     *)
(***************************************************************************)
\* The units shown of (n + t * 2^-TinyBits) / d, for n >= 0.
round_units(n, d, t, decimals) ==
    LET q == (n * Pow10(decimals)) \div d
        r == (n * Pow10(decimals)) % d
    IN IF 2 * r < d THEN q
       ELSE IF 2 * r > d THEN q + 1
       ELSE IF t < 0 THEN q
       ELSE IF t > 0 THEN q + 1
       ELSE IF q % 2 = 0 THEN q ELSE q + 1

format_value(n, d, t, decimals) ==
    LET minus == n < 0 \/ (n = 0 /\ t < 0)
    IN [decimals |-> decimals,
        units |-> IF minus THEN -round_units(-n, d, -t, decimals)
                  ELSE round_units(n, d, t, decimals),
        minus |-> minus]

format_f(x, decimals) == format_value(x.n, Scale, x.t, decimals)

(***************************************************************************)
(* The sum of a float64 column as numpy adds it (pairwise_sum, which        *)
(* pandas' mean reaches through values.sum()).  A run of fewer than         *)
(* UnrollFactor rows is added row after row from 0.0.  A run of up to       *)
(* PW_BLOCKSIZE rows is added in UnrollFactor lanes, lane j taking rows     *)
(* j, j + 8, j + 16, ... of the whole groups of eight; the lanes are added  *)
(* two by two, and the rows left after the last whole group are added to    *)
(* that one after the other.  A longer run is cut in two at a multiple of   *)
(* UnrollFactor and the sums of the halves are added.  lo is the place of   *)
(* the first row of the run in xs and n its number of rows.                 *)
(***************************************************************************)
UnrollFactor == 8
PW_BLOCKSIZE == 128

\* acc plus the rows i, i + step, ... of xs up to row last, one addition
\* per row (the test on next.n always holds; it has each sum computed
\* before the next row).
RECURSIVE add_rows(_, _, _, _, _)
add_rows(xs, i, step, last, acc) ==
    IF i > last THEN acc
    ELSE LET next == float_add(acc, xs[i])
         IN IF next.n = acc.n + xs[i].n
            THEN add_rows(xs, i + step, step, last, next)
            ELSE acc

\* Lane j (0 .. UnrollFactor - 1) of the run: r[j] of the C loop.
lane_sum(xs, lo, n, j) ==
    add_rows(xs, lo + j + UnrollFactor, UnrollFactor,
             lo + n - (n % UnrollFactor) - 1, xs[lo + j])

\* ((r[0] + r[1]) + (r[2] + r[3])) + ((r[4] + r[5]) + (r[6] + r[7])).
lanes_total(r0, r1, r2, r3, r4, r5, r6, r7) ==
    float_add(float_add(float_add(r0, r1), float_add(r2, r3)),
              float_add(float_add(r4, r5), float_add(r6, r7)))

unrolled_sum(xs, lo, n) ==
    add_rows(xs, lo + n - (n % UnrollFactor), 1, lo + n - 1,
             lanes_total(lane_sum(xs, lo, n, 0), lane_sum(xs, lo, n, 1),
                         lane_sum(xs, lo, n, 2), lane_sum(xs, lo, n, 3),
                         lane_sum(xs, lo, n, 4), lane_sum(xs, lo, n, 5),
                         lane_sum(xs, lo, n, 6), lane_sum(xs, lo, n, 7)))

\* The rows of the first half of a run of n > PW_BLOCKSIZE rows.
half_rows(n) == (n \div 2) - ((n \div 2) % UnrollFactor)

RECURSIVE pairwise_sum(_, _, _)
pairwise_sum(xs, lo, n) ==
    IF n < UnrollFactor THEN add_rows(xs, lo, 1, lo + n - 1, Double(0, 0))
    ELSE IF n <= PW_BLOCKSIZE THEN unrolled_sum(xs, lo, n)
    ELSE float_add(pairwise_sum(xs, lo, half_rows(n)),
                   pairwise_sum(xs, lo + half_rows(n), n - half_rows(n)))

\* values.sum() of the whole column.
float_sum(xs) == pairwise_sum(xs, 1, Len(xs))

\* f"{mean:.2f}" of the mean of a non-empty column of float64: the sum of
\* the column divided by the number of rows.
format_mean(xs) ==
    LET total == float_sum(xs)
        d == Scale * Len(xs)
    IN format_value(total.n, d, nearest_double(total.n, d, total.t), 2)

\* The least and the greatest cell of a non-empty set of float64.
float_min(S) == CHOOSE x \in S : \A y \in S : float_leq(x, y)
float_max(S) == CHOOSE x \in S : \A y \in S : float_leq(y, x)

\* What a fetch returned: "none", an "empty" frame, or a frame with "data".
FrameStatus(resp) ==
    LET df == fetch_fred_data(resp)
    IN IF df = None THEN "none" ELSE IF df[1] = <<>> THEN "empty" ELSE "data"

\* The series whose fetch showed st.error (line 231).
ReportedErrors(sids, resps) ==
    {sids[i] : i \in {j \in DOMAIN sids : fetch_raises(resps[j])}}

(***************************************************************************)
(* One column of the summary (lines 391-414): the metric with the latest   *)
(* value to one decimal and the first part of the signal message, shown    *)
(* only when calculate_spread returned a latest value.                     *)
(***************************************************************************)
summary_column(spread_info, r1, r2) ==
    LET res == calculate_spread(spread_info, r1, r2)
    IN [key |-> spread_info.key,
        frames |-> <<FrameStatus(r1), FrameStatus(r2)>>,
        errors |-> ReportedErrors(spread_info.series, <<r1, r2>>),
        metric |->
            IF res.latest_value # None
            THEN LET status_msg ==
                        get_signal_status(Ext(res.latest_value[1]),
                                          spread_info.signals)
                 IN Some([label |-> spread_info.name,
                          value |-> format_f(res.latest_value[1], 1),
                          delta |-> Head(status_msg)])
            ELSE None]

(***************************************************************************)
(* One detail tab (lines 537-602).  With no data frame the tab shows the   *)
(* "cannot load data" error.  With a data frame it formats latest_value,   *)
(* which raises TypeError when latest_value is None (a frame without       *)
(* rows); otherwise it shows the statistics, the signal, the spread chart  *)
(* and the latest components.                                              *)
(***************************************************************************)
SpreadColumn(df) == [i \in 1..Len(df) |-> df[i].spread[1]]

detail_tab(spread_info, r1, r2) ==
    LET res == calculate_spread(spread_info, r1, r2)
        base == [key |-> spread_info.key,
                 frames |-> <<FrameStatus(r1), FrameStatus(r2)>>,
                 errors |-> ReportedErrors(spread_info.series, <<r1, r2>>),
                 unavailable |-> FALSE, exception |-> FALSE,
                 stats |-> None, signal |-> None, chart |-> None,
                 components |-> None]
    IN IF res.df = None THEN [base EXCEPT !.unavailable = TRUE]
       ELSE IF res.latest_value = None THEN [base EXCEPT !.exception = TRUE]
       ELSE LET df == res.df[1]
                col == SpreadColumn(df)
                vals == {col[i] : i \in 1..Len(col)}
            IN [base EXCEPT
                  !.stats = Some([current |-> format_f(res.latest_value[1], 2),
                                  mean |-> format_mean(col),
                                  max |-> format_f(float_max(vals), 2),
                                  min |-> format_f(float_min(vals), 2)]),
                  !.signal = Some(get_signal_status(Ext(res.latest_value[1]),
                                                    spread_info.signals)),
                  !.chart = Some(col),
                  !.components =
                      Some(<<format_f(to_numeric(df[Len(df)].s1[1]), 4),
                             format_f(to_numeric(df[Len(df)].s2[1]), 4)>>)]

(***************************************************************************)
(* The policy-rate framework section (lines 419-528).  policy_data keeps   *)
(* the frames that are not None.  combined_df takes its index from the     *)
(* first frame that has rows.  A column whose own index is that index      *)
(* keeps its values row by row; any other column is reindexed by date,     *)
(* which raises ValueError (uncaught, line 442) when its frame has a       *)
(* repeated date.  Gaps are forward-filled and rows with a missing cell    *)
(* dropped.  The chart is drawn whenever a frame was fetched; the          *)
(* latest-rates box is shown when combined_df has a row, and reads         *)
(* latest.get(series, 0) for each of the six series.                       *)
(***************************************************************************)
policy_series ==
    <<"SOFR", "RRPONTSYAWARD", "IORB", "EFFR", "DFEDTARL", "DFEDTARU">>
PolicyIds == {policy_series[i] : i \in DOMAIN policy_series}
TargetIds == {"DFEDTARL", "DFEDTARU"}

\* Series.reindex at one date, for a frame without a repeated date.
ValueAt(rows, d) ==
    IF RowIndexesAt(rows, d) = {} THEN None
    ELSE Some(rows[CHOOSE i \in RowIndexesAt(rows, d) : TRUE].value)

\* The cell of one column at row i of the index.
ColumnCell(rows, index, i) ==
    IF IndexOf(rows) = index THEN Some(rows[i].value)
    ELSE ValueAt(rows, index[i])

RECURSIVE ffill_columns(_, _)
ffill_columns(rows, last) ==
    IF rows = <<>> THEN <<>>
    ELSE LET r == Head(rows)
             cells == [c \in DOMAIN r.cells |->
                          IF r.cells[c] = None THEN last[c] ELSE r.cells[c]]
         IN <<[date |-> r.date, cells |-> cells]>>
            \o ffill_columns(Tail(rows), cells)

combined_df(policy_data) ==
    LET cols == DOMAIN policy_data
        withRows == {i \in DOMAIN policy_series :
                        /\ policy_series[i] \in cols
                        /\ policy_data[policy_series[i]] # <<>>}
        index == IF withRows = {} THEN <<>>
                 ELSE LET first == policy_data[policy_series[MinOf(withRows)]]
                      IN IndexOf(first)
        raised == \E c \in cols :
                     /\ IndexOf(policy_data[c]) # index
                     /\ HasRepeatedDate(policy_data[c])
        raw == [i \in 1..Len(index) |->
                   [date |-> index[i],
                    cells |-> [c \in cols |->
                                 ColumnCell(policy_data[c], index, i)]]]
        filled == ffill_columns(raw, [c \in cols |-> None])
    IN [raised |-> raised,
        rows |-> IF raised THEN <<>>
                 ELSE SelectSeq(filled,
                                LAMBDA r : \A c \in cols : r.cells[c] # None)]

policy_framework(resps) ==
    LET frames == [i \in DOMAIN policy_series |-> fetch_fred_data(resps[i])]
        fetched == {policy_series[i] :
                      i \in {j \in DOMAIN policy_series : frames[j] # None}}
        policy_data ==
            [c \in fetched |->
                frames[CHOOSE i \in DOMAIN policy_series : policy_series[i] = c][1]]
        merged == combined_df(policy_data)
        combined == merged.rows
        base == [errors |-> ReportedErrors(policy_series, resps),
                 fetched |-> fetched, exception |-> FALSE,
                 chart |-> None, box |-> None]
    IN IF fetched = {} THEN base
       ELSE IF merged.raised THEN [base EXCEPT !.exception = TRUE]
       ELSE [base EXCEPT
               !.chart =
                   Some([traces |->
                            (IF TargetIds \subseteq fetched THEN TargetIds ELSE {})
                            \cup (fetched \ TargetIds),
                         points |-> Len(combined)]),
               !.box =
                   IF Len(combined) > 0
                   THEN LET latest == combined[Len(combined)].cells
                        IN Some([c \in PolicyIds |->
                                   IF c \in fetched
                                   THEN format_f(to_numeric(latest[c][1]), 2)
                                   ELSE format_f(Double(0, 0), 2)])
                   ELSE None]

(***************************************************************************)
(* Spec: the script runs the summary loop over SPREADS, the policy-rate    *)
(* section and the detail loop over SPREADS, and stops at an uncaught      *)
(* exception.                                                              *)
(***************************************************************************)
PassInit ==
    /\ pc = "summary"
    /\ idx = 1
    /\ summary = <<>>
    /\ policy = None
    /\ detail = <<>>
    /\ faults = 0
    /\ ClassifyIdle
    /\ AlignIdle

SummaryColumn ==
    /\ pc = "summary"
    /\ \E kinds \in [1..2 -> ResponseKinds] :
        /\ faults + FaultCount(kinds) <= MaxFaults
        /\ faults' = faults + FaultCount(kinds)
        /\ summary' =
              Append(summary,
                     summary_column(SPREADS[idx],
                         StoreResponse(SPREADS[idx].series[1], kinds[1]),
                         StoreResponse(SPREADS[idx].series[2], kinds[2])))
    /\ IF idx < Len(SPREADS)
       THEN idx' = idx + 1 /\ pc' = pc
       ELSE idx' = 0 /\ pc' = "policy"
    /\ UNCHANGED <<policy, detail, classifyVars, alignVars>>

PolicyFramework ==
    /\ pc = "policy"
    /\ \E failing \in SUBSET DOMAIN policy_series :
        /\ faults + Cardinality(failing) <= MaxFaults
        /\ \E how \in [failing -> FaultKinds] :
            /\ faults' = faults + Cardinality(failing)
            /\ LET section ==
                      policy_framework(
                          [i \in DOMAIN policy_series |->
                              StoreResponse(policy_series[i],
                                  IF i \in failing THEN how[i] ELSE "ok")])
               IN /\ policy' = Some(section)
                  /\ IF section.exception
                     THEN idx' = idx /\ pc' = "crashed"
                     ELSE idx' = 1 /\ pc' = "detail"
    /\ UNCHANGED <<summary, detail, classifyVars, alignVars>>

DetailTab ==
    /\ pc = "detail"
    /\ \E kinds \in [1..2 -> ResponseKinds] :
        /\ faults + FaultCount(kinds) <= MaxFaults
        /\ faults' = faults + FaultCount(kinds)
        /\ LET tab == detail_tab(SPREADS[idx],
                          StoreResponse(SPREADS[idx].series[1], kinds[1]),
                          StoreResponse(SPREADS[idx].series[2], kinds[2]))
           IN /\ detail' = Append(detail, tab)
              /\ IF tab.exception
                 THEN idx' = idx /\ pc' = "crashed"
                 ELSE IF idx < Len(SPREADS)
                 THEN idx' = idx + 1 /\ pc' = pc
                 ELSE idx' = 0 /\ pc' = "done"
    /\ UNCHANGED <<summary, policy, classifyVars, alignVars>>

Next == SummaryColumn \/ PolicyFramework \/ DetailTab

Spec == PassInit /\ [][Next]_vars

(***************************************************************************)
(* Properties of get_signal_status (ClassifySpec).                         *)
(***************************************************************************)
\* The half-open interval [min_val, max_val) of a rule holds v.
Contains(rule, v) == Leq(rule.min_val, v) /\ Lt(v, rule.max_val)
Matching(v, signals) == {i \in 1..Len(signals) : Contains(signals[i], v)}

\* C1: get_signal_status returns the message of the first rule, in declared
\* order, whose interval [lower, upper) holds the value, and the default
\* message when no rule's interval holds it (the empty rule set included).
C1_FirstMatch ==
    cl_result # None =>
        LET hits == Matching(cl_value, cl_signals)
        IN IF hits = {}
           THEN cl_result = Some(DefaultMessage)
           ELSE \E i \in hits :
                    /\ \A j \in hits : i <= j
                    /\ cl_result = Some(cl_signals[i].message)

\* C1 witness: adjacent rules [a, b) and [b, c) with a < b < c, classified
\* at b: the second rule's message is returned.
C1_Witness ==
    /\ cl_result # None
    /\ Len(cl_signals) = 2
    /\ cl_signals[1].max_val = cl_value
    /\ cl_signals[2].min_val = cl_value
    /\ Lt(cl_signals[1].min_val, cl_value)
    /\ Lt(cl_value, cl_signals[2].max_val)
    /\ cl_result = Some(cl_signals[2].message)

\* C2: for each rule set configured in SPREADS and every finite value,
\* exactly one rule's interval holds the value, the default message is
\* never returned, and every declaration order of the rules gives the same
\* result.
C2_ConfiguredPartition ==
    (cl_result # None /\ cl_signals \in ConfiguredSignals /\ cl_value[1] = 0) =>
        /\ Cardinality(Matching(cl_value, cl_signals)) = 1
        /\ cl_result # Some(DefaultMessage)
        /\ \A p \in Permutations(1..Len(cl_signals)) :
              get_signal_status(cl_value,
                  [i \in 1..Len(cl_signals) |-> cl_signals[p[i]]]) = cl_result[1]

\* C2 witness: the first configured rule set classified at its boundary 10:
\* the rule starting at 10 answers.
C2_Witness ==
    /\ cl_result # None
    /\ cl_signals = SPREADS[1].signals
    /\ cl_value = Num(10)
    /\ cl_result = Some(SPREADS[1].signals[1].message)

(***************************************************************************)
(* Properties of calculate_spread (AlignSpec).                             *)
(***************************************************************************)
\* The two fetched frames and the frame calculate_spread returned.
Frame1 == fetch_fred_data(resp1)
Frame2 == fetch_fred_data(resp2)
Calculated == calc # None /\ calc[1].df # None
Output == calc[1].df[1]


\* C3 (as claimed): every definition's spread is in basis points: at each
\* date it is 100 * (a - b) for series quoted in percent.  The rounding
\* error of the float64 is left aside: the spread is compared by the
\* two-decimal number it is next to.
C3_BasisPoints ==
    Calculated =>
        \A i \in 1..Len(Output) :
            /\ Output[i].spread # None
            /\ Output[i].spread[1].n
                  = BpPerPercent * (Output[i].s1[1] - Output[i].s2[1])

\* C7: for two non-empty series, the dates of the aligned output are the
\* dates of either series from the later of the two first dates on, and
\* every output row has both values.
C7_AlignmentDomain ==
    Calculated =>
        LET rows1 == Frame1[1]
            rows2 == Frame2[1]
            out == Output
        IN (rows1 # <<>> /\ rows2 # <<>>) =>
              LET dates1 == DatesOf(rows1)
                  dates2 == DatesOf(rows2)
                  from1 == MinOf(dates1)
                  from2 == MinOf(dates2)
              IN /\ DatesOf(out)
                      = {d \in dates1 \cup dates2 : d >= from1 /\ d >= from2}
                 /\ \A i \in 1..Len(out) :
                       out[i].s1 # None /\ out[i].s2 # None

\* C7 witness: a computed, non-empty output that leaves out a leading date
\* on which only one of two non-empty series has an observation.
C7_Witness ==
    /\ Calculated
    /\ Frame1[1] # <<>>
    /\ Frame2[1] # <<>>
    /\ Output # <<>>
    /\ \E d \in DatesOf(Frame1[1]) \cup DatesOf(Frame2[1]) :
          d \notin DatesOf(Output)

\* The value a series carries on date d: its own on d when it has one, the
\* one of its last row before d otherwise.
CarriedOk(rows, d, cell) ==
    /\ cell # None
    /\ \E e \in DatesOf(rows) : e <= d
    /\ LET last == MaxOf({e \in DatesOf(rows) : e <= d})
       IN /\ cell[1] \in {rows[i].value : i \in RowIndexesAt(rows, last)}
          /\ last < d => cell[1] = rows[MaxOf(RowIndexesAt(rows, last))].value

\* C8: on every output date each series shows its observation at its
\* greatest observation date not after that date, whatever the other
\* series has there.
C8_ForwardFill ==
    Calculated =>
        LET rows1 == Frame1[1]
            rows2 == Frame2[1]
            out == Output
        IN \A i \in 1..Len(out) :
              /\ CarriedOk(rows1, out[i].date, out[i].s1)
              /\ CarriedOk(rows2, out[i].date, out[i].s2)

\* C8 witness: an output row on a date where the first series has no
\* observation, carrying a value that differs from the second series'.
C8_Witness ==
    /\ Calculated
    /\ \E i \in 1..Len(Output) :
          /\ Output[i].date \notin DatesOf(Frame1[1])
          /\ Output[i].date \in DatesOf(Frame2[1])
          /\ Output[i].s1 # Output[i].s2

\* For the rates a and b: whether the spread with multiplier k is k times
\* the spread with multiplier 1, for every k tried, as float64 product and
\* as the two-decimal number it is next to.
LinearInMultiplier ==
    [a \in Rates, b \in Rates |->
        LET one == spread_value(a, b, 1)
        IN \A k \in (-MaxMult)..MaxMult :
              LET scaled == spread_value(a, b, k)
              IN /\ scaled = float_mul(one, k)
                 /\ scaled.n = k * one.n]

\* C9: the spread is multiplier * (a - b) on every row of the aligned pair,
\* over the same dates, and the spread with multiplier k is k times the
\* spread with multiplier 1, row by row.  The products are float64
\* products: the spread is the float64 of multiplier * (a - b), next to the
\* two-decimal number m * (a - b), and k times the unit spread is their
\* float64 product.
C9_Linearity ==
    Calculated =>
        LET pair == align(Frame1[1], Frame2[1])
            out == Output
            m == SPREADS[spread_key].multiplier
            cells == {<<pair[i].s1[1], pair[i].s2[1]>> : i \in 1..Len(pair)}
        IN /\ Len(out) = Len(pair)
           /\ \A i \in 1..Len(pair) :
                 /\ out[i].date = pair[i].date
                 /\ out[i].spread # None
                 /\ out[i].spread[1].n = m * (pair[i].s1[1] - pair[i].s2[1])
                 /\ out[i].spread[1]
                       = float_mul(float_sub(to_numeric(pair[i].s1[1]),
                                             to_numeric(pair[i].s2[1])), m)
           /\ \A c \in cells : LinearInMultiplier[c[1], c[2]]

\* C9 witness: a computed spread row with a non-zero difference.
C9_Witness ==
    /\ Calculated
    /\ \E i \in 1..Len(Output) :
          /\ Output[i].s1 # Output[i].s2
          /\ Output[i].spread # None

\* C10 (as claimed): when an input series repeats a date, the output has
\* one row for each of its dates, and on a repeated date the series shows
\* the value of its last occurrence.
C10_LastOccurrenceWins ==
    (Calculated /\ (HasRepeatedDate(Frame1[1]) \/ HasRepeatedDate(Frame2[1]))) =>
        \A d \in DatesOf(Output) :
            /\ Cardinality(RowIndexesAt(Output, d)) = 1
            /\ \A i \in RowIndexesAt(Output, d) :
                  /\ d \in DatesOf(Frame1[1]) =>
                        Output[i].s1
                          = Some(Frame1[1][MaxOf(RowIndexesAt(Frame1[1], d))].value)
                  /\ d \in DatesOf(Frame2[1]) =>
                        Output[i].s2
                          = Some(Frame2[1][MaxOf(RowIndexesAt(Frame2[1], d))].value)

\* C11 (as claimed): whenever the aligned output of calculate_spread has a
\* row, its dates never decrease down the rows whatever the order of the
\* dates received, the returned latest_value is the spread of the last row,
\* whose date is the greatest date of the output, and latest_value lies
\* between the minimum and the maximum of the spread column (the statistics
\* of the detail tab).
C11_LatestAtGreatestDate ==
    (Calculated /\ Output # <<>>) =>
        LET out == Output
            n == Len(out)
            col == SpreadColumn(out)
            vals == {col[i] : i \in 1..n}
            latest == calc[1].latest_value
        IN /\ \A i \in 1..(n - 1) : out[i].date <= out[i + 1].date
           /\ out[n].date = MaxOf(DatesOf(out))
           /\ latest = out[n].spread
           /\ latest # None
           /\ float_leq(float_min(vals), latest[1])
           /\ float_leq(latest[1], float_max(vals))

(***************************************************************************)
(* Properties of the render pass (Spec).                                   *)
(***************************************************************************)
PassEnded == pc \in {"done", "crashed"}

\* A fetch failed when fetch_fred_data returned None.
AllFetched(view) == \A i \in DOMAIN view.frames : view.frames[i] # "none"

\* C4 (as claimed): every view of the pass either is shown with all the
\* series it requires fetched, or reports an unavailable state; the policy
\* chart is never drawn from some of its six series only and the
\* latest-rates box never shows a number for a series that was not fetched.
\* A summary column left without its metric is read as that column's
\* unavailable state, the weakest reading of the claim.
C4_AllOrUnavailable ==
    /\ \A i \in DOMAIN summary :
          \/ summary[i].metric # None /\ AllFetched(summary[i])
          \/ summary[i].metric = None
    /\ \A i \in DOMAIN detail :
          \/ detail[i].stats # None /\ AllFetched(detail[i])
          \/ detail[i].stats = None /\ detail[i].unavailable
    /\ policy # None =>
          \/ /\ policy[1].chart # None
             /\ policy[1].fetched = PolicyIds
             /\ policy[1].chart[1].traces = PolicyIds
          \/ /\ policy[1].chart = None
             /\ policy[1].box = None
             /\ policy[1].errors # {}
    /\ (policy # None /\ policy[1].box # None) => policy[1].fetched = PolicyIds

\* C5 (as claimed): when an input series of a spread is empty, the pass
\* does not crash, the summary column reports the spread unavailable and
\* the detail tab reports it unavailable.
C5_EmptySeriesUnavailable ==
    PassEnded =>
        /\ pc # "crashed"
        /\ \A i \in DOMAIN summary :
              "empty" \in {summary[i].frames[1], summary[i].frames[2]} =>
                  summary[i].metric = None /\ summary[i].errors # {}
        /\ \A i \in DOMAIN detail :
              "empty" \in {detail[i].frames[1], detail[i].frames[2]} =>
                  /\ detail[i].unavailable
                  /\ ~detail[i].exception
                  /\ detail[i].stats = None

\* C6 (as claimed): a failed fetch leaves its own spread without metric and
\* with the detail tab's unavailable report, both loops run over all of
\* SPREADS, and every definition whose two fetches succeeded has its
\* metric, statistics and chart.
C6_FailureIsolated ==
    PassEnded =>
        /\ pc = "done"
        /\ Len(summary) = Len(SPREADS)
        /\ Len(detail) = Len(SPREADS)
        /\ \A i \in DOMAIN summary :
              IF AllFetched(summary[i])
              THEN summary[i].metric # None
              ELSE summary[i].metric = None
        /\ \A i \in DOMAIN detail :
              IF AllFetched(detail[i])
              THEN detail[i].stats # None /\ detail[i].chart # None
              ELSE detail[i].unavailable /\ detail[i].stats = None

\* The summary metric and the detail tab of one definition show one latest
\* value and one signal: the metric's value (one decimal) and the tab's
\* current value (two decimals) are roundings of one number, and the
\* metric's delta is the first part of the tab's signal message.
SameReading(col, tab) ==
    LET shown1 == col.metric[1].value.units * 10
        shown2 == tab.stats[1].current.units
    IN /\ shown1 - shown2 <= 5
       /\ shown2 - shown1 <= 5
       /\ col.metric[1].delta = Head(tab.signal[1])

\* C12 (as claimed): within one render pass, for every definition the
\* summary column and the detail tab agree: the spread is shown in both or
\* in neither, and when shown both carry the same latest value and the
\* same signal.
C12_SectionsAgree ==
    \A i \in DOMAIN detail :
        /\ (summary[i].metric # None) <=> (detail[i].stats # None)
        /\ (summary[i].metric # None /\ detail[i].stats # None) =>
              SameReading(summary[i], detail[i])

====
